---- MODULE Spec2Model ----
(***************************************************************************)
(* Model of app.py, the resume -> skills -> role scores -> learning plan   *)
(* pipeline of the AI Personalized Career and Skills Advisor.              *)
(*                                                                         *)
(* A Python str is a sequence of atoms.  An atom is a piece of text that   *)
(* the pipeline never looks inside: a word, one blank, one newline, one    *)
(* comma, or one byte that is not valid UTF-8.  Concatenation is \o and    *)
(* two strings are equal exactly when their atom sequences are equal.      *)
(* Numbers that Python rounds to 2 decimals are kept in hundredths         *)
(* (1.0 is 100, 60.0 % is 6000).                                           *)
(* A dict is the sequence of its [k, v] items in insertion order.          *)
(***************************************************************************)
EXTENDS Integers, Sequences, FiniteSets, TLC

VARIABLES uploaded_resume, manual_skills, resume_text, user_skills_conf,
          user_skills, all_roles_scores, plan, errors, pc

vars == <<uploaded_resume, manual_skills, resume_text, user_skills_conf,
          user_skills, all_roles_scores, plan, errors, pc>>

(***************************************************************************)
(* Bounds of the explored inputs.                                          *)
(***************************************************************************)
MaxManualLen == 3
MaxBytesLen == 3
MaxPages == 3
MaxParagraphs == 2

(***************************************************************************)
(* Atoms.                                                                  *)
(***************************************************************************)
Space == " "
Newline == "\n"
Comma == ","
BadByte == "<0xff>"

Whitespace == {Space, Newline}

InputWords == {"Python", "python", "SQL", "Linux", "Machine", "Learning"}

InputAtoms == InputWords \cup {Space, Comma}

StrUpTo(A, n) == UNION {[1..k -> A] : k \in 0..n}

Range(s) == {s[i] : i \in 1..Len(s)}

Min(a, b) == IF a < b THEN a ELSE b

(***************************************************************************)
(* The role catalog and the skill vocabulary.                              *)
(***************************************************************************)
role_skills ==
  << [Role |-> "Data Scientist",
      Skills |-> << <<"Python">>, <<"SQL">>, <<"Machine", " ", "Learning">>,
                    <<"Statistics">>, <<"Data", " ", "Visualization">> >>],
     [Role |-> "Full Stack Developer",
      Skills |-> << <<"JavaScript">>, <<"React">>, <<"Node.js">>,
                    <<"Databases">>, <<"APIs">> >>],
     [Role |-> "Cybersecurity Analyst",
      Skills |-> << <<"Networking">>, <<"Linux">>, <<"Threat", " ", "Analysis">>,
                    <<"SIEM">>, <<"Python">> >>],
     [Role |-> "Cloud Engineer",
      Skills |-> << <<"AWS">>, <<"Docker">>, <<"Kubernetes">>,
                    <<"Terraform">>, <<"Linux">> >>],
     [Role |-> "Product Manager",
      Skills |-> << <<"Agile">>, <<"Communication">>, <<"Market", " ", "Research">>,
                    <<"Roadmapping">>, <<"SQL">> >>] >>

common_skills == UNION {Range(role_skills[r].Skills) : r \in 1..Len(role_skills)}

(***************************************************************************)
(* str.lower(), atom by atom.  Atoms without an upper-case letter map to   *)
(* themselves.                                                             *)
(***************************************************************************)
LowerAtom(a) ==
  CASE a = "Python" -> "python"
    [] a = "SQL" -> "sql"
    [] a = "Machine" -> "machine"
    [] a = "Learning" -> "learning"
    [] a = "Statistics" -> "statistics"
    [] a = "Data" -> "data"
    [] a = "Visualization" -> "visualization"
    [] a = "JavaScript" -> "javascript"
    [] a = "React" -> "react"
    [] a = "Node.js" -> "node.js"
    [] a = "Databases" -> "databases"
    [] a = "APIs" -> "apis"
    [] a = "Networking" -> "networking"
    [] a = "Linux" -> "linux"
    [] a = "Threat" -> "threat"
    [] a = "Analysis" -> "analysis"
    [] a = "SIEM" -> "siem"
    [] a = "AWS" -> "aws"
    [] a = "Docker" -> "docker"
    [] a = "Kubernetes" -> "kubernetes"
    [] a = "Terraform" -> "terraform"
    [] a = "Agile" -> "agile"
    [] a = "Communication" -> "communication"
    [] a = "Market" -> "market"
    [] a = "Research" -> "research"
    [] a = "Roadmapping" -> "roadmapping"
    [] OTHER -> a

lower(s) == [i \in 1..Len(s) |-> LowerAtom(s[i])]

(***************************************************************************)
(* str.strip() and str.split(",").                                         *)
(***************************************************************************)
RECURSIVE lstrip(_)
lstrip(s) ==
  IF s # <<>> /\ Head(s) \in Whitespace THEN lstrip(Tail(s)) ELSE s

RECURSIVE rstrip(_)
rstrip(s) ==
  IF s # <<>> /\ s[Len(s)] \in Whitespace
    THEN rstrip(SubSeq(s, 1, Len(s) - 1))
    ELSE s

strip(s) == rstrip(lstrip(s))

RECURSIVE splitAcc(_, _, _, _)
splitAcc(s, i, cur, out) ==
  IF i > Len(s) THEN Append(out, cur)
  ELSE IF s[i] = Comma THEN splitAcc(s, i + 1, <<>>, Append(out, cur))
  ELSE splitAcc(s, i + 1, Append(cur, s[i]), out)

split(s) == splitAcc(s, 1, <<>>, <<>>)

(***************************************************************************)
(* bytes.decode("utf-8", errors="ignore"): undecodable bytes are dropped.  *)
(***************************************************************************)
decode(bytes) == SelectSeq(bytes, LAMBDA b : b # BadByte)

(***************************************************************************)
(* Dict helpers.                                                           *)
(***************************************************************************)
Keys(d) == [i \in 1..Len(d) |-> d[i].k]

KeySet(d) == {d[i].k : i \in 1..Len(d)}

HasKey(d, key) == \E i \in 1..Len(d) : d[i].k = key

\* d[key] = f(d.get(key)): update in place, or insert at the end
Put(d, key, val) ==
  IF HasKey(d, key)
    THEN [i \in 1..Len(d) |-> IF d[i].k = key THEN [k |-> key, v |-> val] ELSE d[i]]
    ELSE Append(d, [k |-> key, v |-> val])

Get(d, key, default) ==
  IF HasKey(d, key) THEN (CHOOSE it \in Range(d) : it.k = key).v ELSE default

(***************************************************************************)
(* Uploaded files.  A file has a declared MIME type; a PDF or DOCX either  *)
(* opens or not, and holds pages (paragraphs); extracting a PDF page       *)
(* either yields text or raises.  A text file holds bytes.                 *)
(***************************************************************************)
PdfType == "application/pdf"
DocxType == "application/vnd.openxmlformats-officedocument.wordprocessingml.document"
TxtType == "text/plain"
OtherType == "application/octet-stream"

None == [type |-> "None", opens |-> FALSE, pages |-> <<>>, data |-> <<>>]

PageTexts == {<<>>, <<"Python">>, <<"python">>, <<"SQL">>, <<"Machine", " ", "Learning">>}

PageOutcomes ==
  {[raises |-> FALSE, text |-> t] : t \in PageTexts} \cup {[raises |-> TRUE, text |-> <<>>]}

Paragraphs == {[raises |-> FALSE, text |-> t] : t \in PageTexts}

PdfFiles ==
  {[type |-> PdfType, opens |-> TRUE, pages |-> p, data |-> <<>>] :
      p \in StrUpTo(PageOutcomes, MaxPages)}
  \cup {[type |-> PdfType, opens |-> FALSE, pages |-> <<>>, data |-> <<>>]}

DocxFiles ==
  {[type |-> DocxType, opens |-> TRUE, pages |-> p, data |-> <<>>] :
      p \in StrUpTo(Paragraphs, MaxParagraphs)}
  \cup {[type |-> DocxType, opens |-> FALSE, pages |-> <<>>, data |-> <<>>]}

TxtFiles ==
  {[type |-> TxtType, opens |-> TRUE, pages |-> <<>>, data |-> b] :
      b \in StrUpTo(InputAtoms \cup {BadByte}, MaxBytesLen)}

OtherFiles == {[type |-> OtherType, opens |-> TRUE, pages |-> <<>>, data |-> <<"Python">>]}

Uploads == PdfFiles \cup DocxFiles \cup TxtFiles \cup OtherFiles

\* what the text area holds while a file is uploaded
ManualBesideUpload == {<<>>, <<"Python">>, <<"SQL", ",", "Linux">>}

(***************************************************************************)
(* parse_pdf and parse_docx.  The result carries the returned text, the    *)
(* st.error messages shown, and whether an exception left the function.    *)
(***************************************************************************)
RECURSIVE pdf_pages(_, _, _)
pdf_pages(pages, i, text) ==
  IF i > Len(pages) THEN [text |-> text, failed |-> FALSE]
  ELSE IF pages[i].raises THEN [text |-> text, failed |-> TRUE]
  ELSE pdf_pages(pages, i + 1, text \o pages[i].text \o <<Newline>>)

parse_pdf_drops_text(file) ==
  LET r == IF file.opens THEN pdf_pages(file.pages, 1, <<>>)
                         ELSE [text |-> <<>>, failed |-> TRUE]
  IN  [text |-> IF r.failed THEN <<>> ELSE r.text,
       errors |-> IF r.failed THEN <<"PDF parsing error">> ELSE <<>>,
       raised |-> FALSE]

parse_pdf(file) ==
  LET r == IF file.opens THEN pdf_pages(file.pages, 1, <<>>)
                         ELSE [text |-> <<>>, failed |-> TRUE]
  IN  [text |-> r.text,
       errors |-> IF r.failed THEN <<"PDF parsing error">> ELSE <<>>,
       raised |-> FALSE]

RECURSIVE docx_paragraphs(_, _, _)
docx_paragraphs(paras, i, text) ==
  IF i > Len(paras) THEN text
  ELSE docx_paragraphs(paras, i + 1, text \o paras[i].text \o <<Newline>>)

parse_docx(file) ==
  IF file.opens
    THEN [text |-> docx_paragraphs(file.pages, 1, <<>>), errors |-> <<>>, raised |-> FALSE]
    ELSE [text |-> <<>>, errors |-> <<"DOCX parsing error">>, raised |-> FALSE]

(***************************************************************************)
(* The tokenizer: a blank ends a token; a comma or a newline ends a token  *)
(* and is a token itself; adjacent word atoms are one token.               *)
(***************************************************************************)
RECURSIVE tokAcc(_, _, _, _, _)
tokAcc(text, i, cur, out, blankSplits) ==
  LET flushed == IF cur = <<>> THEN out ELSE Append(out, cur) IN
  IF i > Len(text) THEN flushed
  ELSE IF text[i] = Space /\ blankSplits THEN tokAcc(text, i + 1, <<>>, flushed, blankSplits)
  ELSE IF text[i] \in {Newline, Comma}
    THEN tokAcc(text, i + 1, <<>>, Append(flushed, <<text[i]>>), blankSplits)
  ELSE tokAcc(text, i + 1, Append(cur, text[i]), out, blankSplits)

nlp_phrases(text) == tokAcc(text, 1, <<>>, <<>>, FALSE)

nlp(text) == tokAcc(text, 1, <<>>, <<>>, TRUE)

(***************************************************************************)
(* extract_skills.                                                         *)
(***************************************************************************)
RECURSIVE Counter(_)
Counter(items) ==
  IF items = <<>> THEN <<>>
  ELSE LET d == Counter(SubSeq(items, 1, Len(items) - 1))
           x == items[Len(items)]
       IN  Put(d, x, Get(d, x, 0) + 1)

\* round(num / den * scale / 100, 2) in hundredths, ties to even
Round2(num, den, scale) ==
  LET n == num * scale
      q == n \div den
      r == n % den
  IN  IF 2 * r < den THEN q
      ELSE IF 2 * r > den THEN q + 1
      ELSE IF q % 2 = 0 THEN q ELSE q + 1

RECURSIVE SumVals(_)
SumVals(d) == IF d = <<>> THEN 0 ELSE Head(d).v + SumVals(Tail(d))

max_count_total(counts) == IF counts # <<>> THEN SumVals(counts) ELSE 1

max_count(counts) ==
  IF counts # <<>>
    THEN CHOOSE m \in {counts[i].v : i \in 1..Len(counts)} :
           \A i \in 1..Len(counts) : counts[i].v <= m
    ELSE 1

extract_skills(text) ==
  LET doc == nlp(text)
      vocab == {lower(s) : s \in common_skills}
      skills_found == SelectSeq(doc, LAMBDA t : lower(t) \in vocab)
      counts == Counter(skills_found)
      mc == max_count(counts)
  IN  [i \in 1..Len(counts) |->
         [k |-> counts[i].k, v |-> Round2(counts[i].v, mc, 100)]]

(***************************************************************************)
(* The manual entry: {s.strip(): 1.0 for s in split(",") if s.strip()}.    *)
(***************************************************************************)
RECURSIVE manual_dict(_)
manual_dict(parts) ==
  IF parts = <<>> THEN <<>>
  ELSE LET d == manual_dict(SubSeq(parts, 1, Len(parts) - 1))
           s == parts[Len(parts)]
       IN  IF strip(s) # <<>> THEN Put(d, strip(s), 100) ELSE d

manual_conf(ms) == manual_dict(split(ms))

takes_manual_or_falls_back(uploaded, text, manual) ==
  (uploaded = None \/ text = <<>>) /\ manual # <<>>

\* the elif of line 108 is reached only when nothing is uploaded
takes_manual_branch(uploaded, text, manual) ==
  uploaded = None /\ manual # <<>>

(***************************************************************************)
(* Role scores, their ordering, and the learning plan.                     *)
(***************************************************************************)
TopN == 5

matched_skills_any_case(req_skills, us) ==
  SelectSeq(req_skills, LAMBDA s : lower(s) \in {lower(u) : u \in Range(us)})

matched_skills(req_skills, us) ==
  SelectSeq(req_skills, LAMBDA s : s \in Range(us))

match_score_floor_div(matched, req_skills) ==
  IF req_skills # <<>> THEN (Len(matched) \div Len(req_skills)) * 10000 ELSE 0

match_score(matched, req_skills) ==
  IF req_skills # <<>> THEN Round2(Len(matched), Len(req_skills), 10000) ELSE 0

missing_skills_none_if_unmatched(req_skills, matched) ==
  IF matched = <<>> THEN <<>> ELSE SelectSeq(req_skills, LAMBDA s : s \notin Range(matched))

missing_skills(req_skills, matched) ==
  SelectSeq(req_skills, LAMBDA s : s \notin Range(matched))

score_role(entry, us) ==
  LET matched == matched_skills(entry.Skills, us)
  IN  [Role |-> entry.Role,
       MatchPct |-> match_score(matched, entry.Skills),
       MatchedSkills |-> matched,
       MissingSkills |-> missing_skills(entry.Skills, matched)]

score_roles(us) == [r \in 1..Len(role_skills) |-> score_role(role_skills[r], us)]

\* sorted(..., key=Match %, reverse=True): stable, equal keys keep their order
RECURSIVE insert_desc(_, _, _)
insert_desc(sorted, e, afterEqual) ==
  IF sorted = <<>> THEN <<e>>
  ELSE IF Head(sorted).MatchPct > e.MatchPct
          \/ (afterEqual /\ Head(sorted).MatchPct = e.MatchPct)
    THEN <<Head(sorted)>> \o insert_desc(Tail(sorted), e, afterEqual)
  ELSE <<e>> \o sorted

RECURSIVE sort_desc(_, _)
sort_desc(seq, afterEqual) ==
  IF seq = <<>> THEN <<>>
  ELSE insert_desc(sort_desc(SubSeq(seq, 1, Len(seq) - 1), afterEqual),
                   seq[Len(seq)], afterEqual)

sorted_desc_ties_reversed(seq) == sort_desc(seq, FALSE)

sorted_desc(seq) == sort_desc(seq, TRUE)

plan_item(skill) ==
  [Week |-> 1, Skill |-> skill,
   Resources |-> << <<"Coursera/YouTube Course on ">> \o skill >>]

RECURSIVE plan_loop(_, _, _, _)
plan_loop(entries, e, s, acc) ==
  IF e > Len(entries) THEN acc
  ELSE IF s > Len(entries[e].MissingSkills) THEN plan_loop(entries, e + 1, 1, acc)
  ELSE IF acc.dedup /\ \E i \in 1..Len(acc.items) :
                         acc.items[i].Skill = entries[e].MissingSkills[s]
    THEN plan_loop(entries, e, s + 1, acc)
  ELSE plan_loop(entries, e, s + 1,
         [acc EXCEPT !.items = Append(@, plan_item(entries[e].MissingSkills[s]))])

build_plan_dedup(scores) ==
  plan_loop(SubSeq(scores, 1, Min(TopN, Len(scores))), 1, 1,
            [items |-> <<>>, dedup |-> TRUE]).items

build_plan(scores) ==
  plan_loop(SubSeq(scores, 1, Min(TopN, Len(scores))), 1, 1,
            [items |-> <<>>, dedup |-> FALSE]).items

(***************************************************************************)
(* The script, one run.                                                    *)
(***************************************************************************)
Init ==
  /\ \/ /\ uploaded_resume = None
        /\ manual_skills \in StrUpTo(InputAtoms, MaxManualLen)
     \/ /\ uploaded_resume \in Uploads
        /\ manual_skills \in ManualBesideUpload
  /\ resume_text = <<>>
  /\ user_skills_conf = <<>>
  /\ user_skills = <<>>
  /\ all_roles_scores = <<>>
  /\ plan = <<>>
  /\ errors = <<>>
  /\ pc = "start"

Parsed(r) ==
  /\ resume_text' = r.text
  /\ errors' = errors \o r.errors
  /\ pc' = IF r.raised THEN "aborted" ELSE "parsed"
  /\ UNCHANGED <<uploaded_resume, manual_skills, user_skills_conf, user_skills,
                 all_roles_scores, plan>>

\* line 82: if uploaded_resume
AtStartWithFile == pc = "start" /\ uploaded_resume # None

ParsePdf ==
  /\ AtStartWithFile
  /\ uploaded_resume.type = PdfType
  /\ Parsed(parse_pdf(uploaded_resume))

ParseDocx ==
  /\ AtStartWithFile
  /\ uploaded_resume.type = DocxType
  /\ Parsed(parse_docx(uploaded_resume))

ReadTxt ==
  /\ AtStartWithFile
  /\ uploaded_resume.type = TxtType
  /\ Parsed([text |-> decode(uploaded_resume.data), errors |-> <<>>, raised |-> FALSE])

UnhandledType ==
  /\ AtStartWithFile
  /\ uploaded_resume.type \notin {PdfType, DocxType, TxtType}
  /\ Parsed([text |-> <<>>, errors |-> <<>>, raised |-> FALSE])

Profiled(conf) ==
  /\ user_skills_conf' = conf
  /\ pc' = "profiled"
  /\ UNCHANGED <<uploaded_resume, manual_skills, resume_text, user_skills,
                 all_roles_scores, plan, errors>>

\* line 90: if resume_text
AtParsedWithText == pc = "parsed" /\ resume_text # <<>>

ExtractInfo ==
  /\ AtParsedWithText
  /\ Profiled(extract_skills(resume_text))

AtParsedWithoutText ==
  /\ pc = "parsed"
  /\ resume_text = <<>>
  /\ ~takes_manual_branch(uploaded_resume, resume_text, manual_skills)

EmptyText ==
  /\ AtParsedWithoutText
  /\ Profiled(<<>>)

\* line 108: elif manual_skills
AtManualBranch ==
  /\ pc \in {"start", "parsed"}
  /\ takes_manual_branch(uploaded_resume, resume_text, manual_skills)

ManualEntry ==
  /\ AtManualBranch
  /\ Profiled(manual_conf(manual_skills))

AtStartWithNothing ==
  /\ pc = "start"
  /\ uploaded_resume = None
  /\ ~takes_manual_branch(uploaded_resume, resume_text, manual_skills)

NoInput ==
  /\ AtStartWithNothing
  /\ Profiled(<<>>)

AtProfiled == pc = "profiled"

Recommend ==
  /\ AtProfiled
  /\ user_skills' = Keys(user_skills_conf)
  /\ all_roles_scores' = sorted_desc(score_roles(Keys(user_skills_conf)))
  /\ plan' = build_plan(sorted_desc(score_roles(Keys(user_skills_conf))))
  /\ pc' = "done"
  /\ UNCHANGED <<uploaded_resume, manual_skills, resume_text, user_skills_conf, errors>>

Next ==
  \/ ParsePdf
  \/ ParseDocx
  \/ ReadTxt
  \/ UnhandledType
  \/ ExtractInfo
  \/ EmptyText
  \/ ManualEntry
  \/ NoInput
  \/ Recommend

Spec == Init /\ [][Next]_vars

(***************************************************************************)
(* Properties.                                                             *)
(***************************************************************************)
Profile == pc \in {"profiled", "done"}

Finished == pc = "done"

RequiredOf(role) ==
  (CHOOSE e \in Range(role_skills) : e.Role = role).Skills

CatalogIndex(role) ==
  CHOOSE r \in 1..Len(role_skills) : role_skills[r].Role = role

AllZero == \A i \in 1..Len(all_roles_scores) : all_roles_scores[i].MatchPct = 0

\* C1: every role of the catalog has one score entry, whose match percentage
\* is 100 * (required skills present in the user skill set) / (required
\* skills) rounded to 2 decimals (0 for a role that requires nothing), and
\* lies between 0 and 100.
C1_MatchPercentage ==
  Finished =>
    /\ Len(all_roles_scores) = Len(role_skills)
    /\ {all_roles_scores[i].Role : i \in 1..Len(all_roles_scores)}
         = {role_skills[r].Role : r \in 1..Len(role_skills)}
    /\ \A i \in 1..Len(all_roles_scores) :
         LET e == all_roles_scores[i]
             req == RequiredOf(e.Role)
             n == Len(req)
             m == Cardinality({j \in 1..n : \E u \in 1..Len(user_skills) :
                                              user_skills[u] = req[j]})
             d == e.MatchPct * n - 10000 * m
         IN  /\ e.MatchPct \in 0..10000
             /\ IF n = 0 THEN e.MatchPct = 0
                ELSE 2 * d <= n /\ -2 * d <= n

C1_Witness ==
  /\ Finished
  /\ \E i, j \in 1..Len(all_roles_scores) :
       /\ all_roles_scores[i].MatchPct = 4000
       /\ all_roles_scores[j].MatchPct = 0

\* C2: the score list is non-increasing in match percentage, and roles with
\* equal match percentage keep their catalog order.
C2_SortedStable ==
  Finished =>
    \A i, j \in 1..Len(all_roles_scores) :
      i < j =>
        /\ all_roles_scores[i].MatchPct >= all_roles_scores[j].MatchPct
        /\ all_roles_scores[i].MatchPct = all_roles_scores[j].MatchPct
             => CatalogIndex(all_roles_scores[i].Role)
                  < CatalogIndex(all_roles_scores[j].Role)

C2_Witness ==
  /\ Finished
  /\ all_roles_scores[1].Role = "Cybersecurity Analyst"
  /\ all_roles_scores[2].MatchPct = all_roles_scores[3].MatchPct
  /\ all_roles_scores[2].MatchPct > all_roles_scores[4].MatchPct

NothingEntered == uploaded_resume = None /\ manual_skills = <<>>

\* C3 (as stated): with no upload and an empty manual entry every role
\* scores 0 and the learning plan has no items.
C3_EmptyInputEmptyPlan ==
  (Finished /\ NothingEntered) => (AllZero /\ plan = <<>>)

\* C3 (amended): with no upload and an empty manual entry every role scores
\* 0 and the learning plan holds one item for every required skill of every
\* role, in catalog order.
C3_EmptyInputFullPlan ==
  (Finished /\ NothingEntered) =>
    /\ AllZero
    /\ Len(plan) = 25
    /\ \A r \in 1..5 : \A s \in 1..5 :
         plan[5 * (r - 1) + s].Skill = role_skills[r].Skills[s]

C3_Witness == Finished /\ NothingEntered /\ Len(all_roles_scores) = 5

FromText == uploaded_resume # None

VocabularyTokens(text) ==
  {t \in Range(nlp(text)) : \E s \in common_skills : lower(s) = lower(t)}

\* C4: every confidence extracted from a resume text lies in [0,1]; a
\* nonempty mapping has a value 1.0; a text without a vocabulary token gives
\* the empty mapping.
C4_Confidence ==
  (Profile /\ FromText) =>
    /\ \A i \in 1..Len(user_skills_conf) : user_skills_conf[i].v \in 0..100
    /\ user_skills_conf # <<>> =>
         \E i \in 1..Len(user_skills_conf) : user_skills_conf[i].v = 100
    /\ VocabularyTokens(resume_text) = {} => user_skills_conf = <<>>

C4_Witness ==
  /\ Profile /\ FromText
  /\ \E i, j \in 1..Len(user_skills_conf) :
       user_skills_conf[i].v = 50 /\ user_skills_conf[j].v = 100

\* C5: every key of a profile extracted from a resume text is a skill of the
\* vocabulary.
C5_KeysInVocabulary ==
  (Profile /\ FromText) => KeySet(user_skills_conf) \subseteq common_skills

TopRoles == SubSeq(all_roles_scores, 1, Min(5, Len(all_roles_scores)))

RECURSIVE MissingBefore(_)
MissingBefore(i) ==
  IF i <= 1 THEN 0 ELSE MissingBefore(i - 1) + Len(TopRoles[i - 1].MissingSkills)

\* C6: the learning plan is the concatenation, over the first 5 roles of the
\* sorted score list, of one item per missing skill in list order; every
\* item has Week 1 and one resource naming the skill; a skill missing from k
\* of these roles appears k times.
C6_PlanIsConcatenation ==
  Finished =>
    /\ Len(plan) = MissingBefore(Len(TopRoles) + 1)
    /\ \A i \in 1..Len(TopRoles) : \A j \in 1..Len(TopRoles[i].MissingSkills) :
         LET item == plan[MissingBefore(i) + j]
             skill == TopRoles[i].MissingSkills[j]
         IN  /\ item.Week = 1
             /\ item.Skill = skill
             /\ Len(item.Resources) = 1
             /\ item.Resources[1] = <<"Coursera/YouTube Course on ">> \o skill
    /\ \A s \in common_skills :
         Cardinality({p \in 1..Len(plan) : plan[p].Skill = s})
           = Cardinality({i \in 1..Len(TopRoles) : s \in Range(TopRoles[i].MissingSkills)})

C6_Witness ==
  /\ Finished
  /\ Len(plan) = 23
  /\ Cardinality({p \in 1..Len(plan) : plan[p].Skill = <<"Linux">>}) = 2

IsPdf == uploaded_resume # None /\ uploaded_resume.type = PdfType

Raising(pages) == {i \in 1..Len(pages) : pages[i].raises}

FirstRaising(pages) == CHOOSE k \in Raising(pages) : \A i \in Raising(pages) : k <= i

PdfFails == IsPdf /\ (~uploaded_resume.opens \/ Raising(uploaded_resume.pages) # {})

RECURSIVE PagesText(_, _)
PagesText(pages, n) ==
  IF n = 0 THEN <<>>
  ELSE PagesText(pages, n - 1) \o pages[n].text \o <<Newline>>

\* the branch the script takes next, in a state that is not the last
NextStepExists ==
  \/ AtStartWithFile
  \/ AtParsedWithText
  \/ AtParsedWithoutText
  \/ AtManualBranch
  \/ AtStartWithNothing
  \/ AtProfiled

\* C7: when the reader cannot be opened or page k is the first page whose
\* extraction raises, parse_pdf does not raise, shows one warning and returns
\* the text of pages 1..k-1, each followed by a newline (nothing when the
\* reader cannot be opened or k = 1); the run is never cut short and ends
\* with every role scored on the skills of that text.
C7_PdfPartialText ==
  (PdfFails /\ pc # "start") =>
    /\ pc # "aborted"
    /\ Len(errors) = 1
    /\ resume_text =
         IF uploaded_resume.opens
           THEN PagesText(uploaded_resume.pages, FirstRaising(uploaded_resume.pages) - 1)
           ELSE <<>>
    /\ Finished \/ NextStepExists
    /\ Finished =>
         /\ Len(all_roles_scores) = Len(role_skills)
         /\ Range(user_skills) =
              IF resume_text = <<>> THEN {} ELSE VocabularyTokens(resume_text)

C7_Witness ==
  /\ Finished
  /\ IsPdf /\ uploaded_resume.opens
  /\ Len(uploaded_resume.pages) = 3
  /\ Raising(uploaded_resume.pages) # {}
  /\ FirstRaising(uploaded_resume.pages) = 2
  /\ resume_text = <<"Python", Newline>>
  /\ errors = <<"PDF parsing error">>
  /\ all_roles_scores[1].MatchPct = 2000

CaseVariant(u, s) == u # s /\ lower(u) = lower(s)

InPlan(s) == \E p \in 1..Len(plan) : plan[p].Skill = s

\* every skill the user gave is a key of the profile: each nonempty stripped
\* part of the manual entry, each token of the text that is a vocabulary
\* skill up to letter case
GivenSkillsAreKeys ==
  IF FromText
    THEN resume_text # <<>> =>
           VocabularyTokens(resume_text) \subseteq Range(user_skills)
    ELSE \A i \in 1..Len(split(manual_skills)) :
           strip(split(manual_skills)[i]) # <<>> =>
             strip(split(manual_skills)[i]) \in Range(user_skills)

\* C8 (as stated): a user skill that differs from a catalog skill only in
\* letter case is in the profile, is in no role's matched list, and the
\* catalog skill is in the missing list of every role requiring it and in
\* the learning plan.
C8_CaseVariantAlwaysMissing ==
  Finished =>
    /\ GivenSkillsAreKeys
    /\ \A i \in 1..Len(all_roles_scores) :
         LET e == all_roles_scores[i] IN
         \A u \in Range(user_skills) :
           /\ \A s \in common_skills :
                CaseVariant(u, s) => u \notin Range(e.MatchedSkills)
           /\ \A s \in Range(RequiredOf(e.Role)) :
                CaseVariant(u, s) => (s \in Range(e.MissingSkills) /\ InPlan(s))

\* C8 (amended): the same, for a catalog skill that is not itself, in its
\* exact casing, in the profile.
C8_CaseVariantMissingUnlessExact ==
  Finished =>
    /\ GivenSkillsAreKeys
    /\ \A i \in 1..Len(all_roles_scores) :
         LET e == all_roles_scores[i] IN
         \A u \in Range(user_skills) :
           /\ \A s \in common_skills :
                CaseVariant(u, s) => u \notin Range(e.MatchedSkills)
           /\ \A s \in Range(RequiredOf(e.Role)) :
                (CaseVariant(u, s) /\ s \notin Range(user_skills))
                  => (s \in Range(e.MissingSkills) /\ InPlan(s))

C8_Witness ==
  /\ Finished
  /\ FromText
  /\ <<"python">> \in Range(user_skills)
  /\ <<"Python">> \notin Range(user_skills)
  /\ <<"SQL">> \in Range(user_skills)
  /\ all_roles_scores[1].MissingSkills[1] = <<"Python">>

\* the comma-free stretches of the manual entry, stripped
IsManualEntry(k, ms) ==
  \E a \in 1..(Len(ms) + 1) : \E b \in 0..Len(ms) :
    /\ a = 1 \/ ms[a - 1] = Comma
    /\ b = Len(ms) \/ ms[b + 1] = Comma
    /\ \A x \in a..b : ms[x] # Comma
    /\ \E i \in a..b : \E j \in i..b :
         /\ k = SubSeq(ms, i, j)
         /\ ms[i] \notin Whitespace /\ ms[j] \notin Whitespace
         /\ \A x \in (a..(i - 1)) \cup ((j + 1)..b) : ms[x] \in Whitespace

\* C9: with a file uploaded the manual entry is never used: every key of the
\* profile is a token of the file's text, and a file that yields no text
\* leaves the profile empty and every role at 0 whatever the manual entry
\* holds; with no file the profile is the manual entry's skills, each at 1.0.
C9_UploadTakesPrecedence ==
  Profile =>
    IF uploaded_resume # None
      THEN /\ KeySet(user_skills_conf) \subseteq Range(nlp(resume_text))
           /\ resume_text = <<>> => user_skills_conf = <<>>
           /\ (Finished /\ resume_text = <<>>) => AllZero
      ELSE /\ \A i \in 1..Len(user_skills_conf) :
                /\ user_skills_conf[i].v = 100
                /\ IsManualEntry(user_skills_conf[i].k, manual_skills)
           /\ \A i \in 1..Len(manual_skills) : \A j \in i..Len(manual_skills) :
                IsManualEntry(SubSeq(manual_skills, i, j), manual_skills)
                  => SubSeq(manual_skills, i, j) \in KeySet(user_skills_conf)

C9_Witness ==
  /\ Finished
  /\ uploaded_resume # None
  /\ uploaded_resume.type = TxtType
  /\ uploaded_resume.data # <<>>
  /\ resume_text = <<>>
  /\ manual_skills = <<"SQL", ",", "Linux">>
  /\ user_skills_conf = <<>>
  /\ AllZero

HasBlank(s) == Space \in Range(s)

\* C10: a vocabulary skill whose name contains a blank is never a key of a
\* profile extracted from text; it is in the missing list of every role that
\* requires it, and no such role reaches 100 %.
C10_PhraseSkillsNeverExtracted ==
  (Profile /\ FromText) =>
    \A s \in common_skills :
      HasBlank(s) =>
        /\ s \notin KeySet(user_skills_conf)
        /\ Finished =>
             \A i \in 1..Len(all_roles_scores) :
               s \in Range(RequiredOf(all_roles_scores[i].Role)) =>
                 /\ s \in Range(all_roles_scores[i].MissingSkills)
                 /\ all_roles_scores[i].MatchPct < 10000

C10_Witness ==
  /\ Finished
  /\ FromText
  /\ resume_text = <<"Machine", " ", "Learning">>
  /\ user_skills_conf = <<>>
  /\ <<"Machine", " ", "Learning">> \in Range(all_roles_scores[1].MissingSkills)

====
